---------------------------- MODULE Spec2Model ----------------------------
(***************************************************************************)
(* Model of send_logreturns.py: log returns of a price list, their 64.64   *)
(* fixed-point encoding, and the single addLogReturns transaction that     *)
(* carries them to the VolatilityCalculator contract.                      *)
(*                                                                         *)
(* Every statement of the file is written behind a leading "# "; the model *)
(* is of those statements, in the order the interpreter would run them.    *)
(*                                                                         *)
(* Numbers.  A Python float is a dyadic rational; it is modelled as the    *)
(* record [m, e] standing for m * 2^e.  A Python int that may exceed the   *)
(* range of TLC's integers (a value scaled by 2^64) is modelled alike,    *)
(* with e >= 0.  math.log is computed to LogFracBits fractional bits.      *)
(***************************************************************************)
EXTENDS Integers, Sequences, FiniteSets, TLC

\* ------------------------------------------------------------------ bounds
MaxLen == 3        \* longest price list drawn
MaxPrice == 3      \* prices are drawn from -MaxPrice .. MaxPrice
MaxMant == 12      \* mantissas of the floats handed to to_64x64 alone
ExpSpread == 3     \* their exponents lie within ExpSpread of -64
MaxNonce == 1      \* largest transaction count the node reports
MaxBlock == 2      \* largest block number the node mines into
LogFracBits == 10  \* fractional bits kept of math.log
LogTerms == 6      \* terms of the series that computes math.log

\* ------------------------------------------------------- program constants
FracBits == 64          \* the exponent of 2**64 in to_64x64
GasLimit == 500000      \* 'gas': 500000
GweiInWei == 1000000000 \* the wei in one gwei, w3.toWei(_, 'gwei')

\* ------------------------------------------------------------- arithmetic
RECURSIVE Pow2(_)
Pow2(n) == IF n <= 0 THEN 1 ELSE 2 * Pow2(n - 1)

Abs(x) == IF x < 0 THEN -x ELSE x

\* Quotient rounded toward zero, b > 0 (TLA+'s \div rounds toward -infinity).
TruncDiv(a, b) == IF a >= 0 THEN a \div b ELSE -((-a) \div b)

Float(m, e) == [m |-> m, e |-> e]

Ok(v) == [ok |-> TRUE, val |-> v, err |-> "none"]
Raise(e) == [ok |-> FALSE, val |-> <<>>, err |-> e]

\* ---------------------------------------------- prices[i] / prices[i - 1]
\* Python's true division of two ints: ZeroDivisionError on a zero divisor,
\* otherwise the quotient, here as a fraction num/den with den > 0.
PyTrueDiv(a, b) ==
    IF b = 0 THEN Raise("ZeroDivisionError")
    ELSE IF b > 0 THEN Ok([num |-> a, den |-> b])
    ELSE Ok([num |-> -a, den |-> -b])

\* ln(num/den) = 2 atanh(z), z = (num - den)/(num + den), by the series
\* z + z^3/3 + z^5/5 + ..., in fixed point with LogFracBits fractional bits
\* (each quotient rounded down).
RECURSIVE AtanhSeries(_, _, _)
AtanhSeries(z, pw, k) ==
    IF k >= LogTerms THEN 0
    ELSE (pw \div (2 * k + 1))
         + AtanhSeries(z,
                       (((pw * z) \div Pow2(LogFracBits)) * z) \div Pow2(LogFracBits),
                       k + 1)

LnOfFraction(num, den) ==
    LET z == ((num - den) * Pow2(LogFracBits)) \div (num + den)
    IN  Float(2 * AtanhSeries(z, z, 0), -LogFracBits)

\* math.log(x): "math domain error" (ValueError) unless x > 0.
MathLogAbs(q) ==
    IF q.num = 0 THEN Raise("ValueError")
    ELSE Ok(LnOfFraction(Abs(q.num), q.den))

MathLog(q) ==
    IF q.num <= 0 THEN Raise("ValueError")
    ELSE Ok(LnOfFraction(q.num, q.den))

\* ------------------------------------------------- calculate_log_returns
\* prices[i] with Python's 0-based index (a negative index counts from the end).
At(s, i) == IF i >= 0 THEN s[i + 1] ELSE s[Len(s) + i + 1]

\* math.log(prices[i] / prices[i - 1])
LogReturnAtSwapped(prices, i) ==
    LET q == PyTrueDiv(At(prices, i - 1), At(prices, i))
    IN  IF q.ok THEN MathLog(q.val) ELSE q

LogReturnAt(prices, i) ==
    LET q == PyTrueDiv(At(prices, i), At(prices, i - 1))
    IN  IF q.ok THEN MathLog(q.val) ELSE q

\* The for loop from index i on, log_returns being acc so far; an exception
\* raised in the body leaves the function without a return value.
RECURSIVE LoopFrom(_, _, _)
LoopFrom(prices, i, acc) ==
    IF i >= Len(prices) THEN Ok(acc)
    ELSE LET r == LogReturnAt(prices, i)
         IN  IF r.ok THEN LoopFrom(prices, i + 1, Append(acc, r.val))
             ELSE Raise(r.err)

calculate_log_returns_from0(prices) == LoopFrom(prices, 0, <<>>)

calculate_log_returns(prices) == LoopFrom(prices, 1, <<>>)

\* ---------------------------------------------------------------- to_64x64
\* value * (2**64): a float times a power of two, exact.
ScaleBy2_63(v) == Float(v.m, v.e + FracBits - 1)

ScaleBy2(v) == Float(v.m, v.e + FracBits)

\* int(x) of a float: the fraction is dropped, toward zero.
PyIntFloor(x) ==
    IF x.e >= 0 THEN x ELSE Float(x.m \div Pow2(-x.e), 0)

PyInt(x) ==
    IF x.e >= 0 THEN x ELSE Float(TruncDiv(x.m, Pow2(-x.e)), 0)

to_64x64(value) == PyInt(ScaleBy2(value))

\* =================================================================== state
VARIABLES
    pc,                 \* the statement the script is at, "done" or "aborted"
    failedAt,           \* the statement whose exception ended the run, or ""
    trace,              \* the statements completed, in order
    prices,             \* prices; <<>> until line 30
    privateKey,         \* the PRIVATE_KEY of the environment; "" when not set
    account,            \* <<>> until line 27, then <<account>>
    log_returns,        \* line 44
    log_returns_64x64,  \* line 48
    nonce,              \* the node's answer to get_transaction_count
    tx,                 \* the transactions built (line 53), in order
    signed_tx,          \* the transactions signed (line 61), in order
    tx_hash,            \* <<>> until line 64, then <<hash>>
    receipt,            \* <<>> until line 68, then <<receipt>>
    console,            \* the lines printed, in order
    pending,            \* node: the raw transactions received, in order
    chain,              \* node: the receipts of the mined transactions
    value,              \* the argument of a lone call of to_64x64
    encoded             \* <<>>, then <<what that call returned>>

scriptVars == <<account, log_returns, log_returns_64x64, nonce, tx, signed_tx,
                tx_hash, receipt>>
inputVars == <<prices, privateKey>>
nodeVars == <<pending, chain>>
callVars == <<value, encoded>>
vars == <<pc, failedAt, trace, scriptVars, inputVars, console, nodeVars, callVars>>

\* The statements of the script in the order they run.
StepOrder ==
    <<"load_dotenv", "connect", "load_abi", "contract", "account", "prices",
      "compute", "print_returns",
      "encode", "print_encoded", "nonce", "build", "sign", "send", "print_hash",
      "wait", "print_block">>

IndexOf(step) == CHOOSE i \in 1..Len(StepOrder) : StepOrder[i] = step

NextStep(step) ==
    IF IndexOf(step) = Len(StepOrder) THEN "done"
    ELSE StepOrder[IndexOf(step) + 1]

\* The statements an exception of the node, the file system or the library
\* can end; lines 27 and 44 fail on their data alone.
Fallible == {"connect", "load_abi", "contract", "nonce", "build", "sign",
             "send", "wait"}

Keys == {"key1", "key2"}
AddressOf(key) == IF key = "key1" THEN "addr1" ELSE "addr2"
ContractAddress == "0x.."

\* w3.toWei(amount, unit)
ToWei(amount, unit) == IF unit = "gwei" THEN amount * GweiInWei ELSE amount

\* The hash the node gives a raw transaction.
Keccak(raw) == [of |-> raw]

\* A transaction of another sender, mined before the script starts.
ForeignRaw ==
    [tx |-> [to |-> ContractAddress, fn |-> "addLogReturns", args |-> << <<>> >>,
             from |-> "addr0", nonce |-> 0, gas |-> GasLimit,
             gasPrice |-> ToWei(1, "gwei")],
     signer |-> "addr0"]

RECURSIVE SeqsUpTo(_, _)
SeqsUpTo(S, n) ==
    IF n = 0 THEN {<<>>}
    ELSE LET shorter == SeqsUpTo(S, n - 1)
         IN  shorter \cup {Append(s, x) : s \in {t \in shorter : Len(t) = n - 1}, x \in S}

PriceLists == SeqsUpTo((-MaxPrice)..MaxPrice, MaxLen)

Floats == {Float(m, e) : m \in (-MaxMant)..MaxMant,
                         e \in (-FracBits - ExpSpread)..(-FracBits + ExpSpread)}

\* ==================================================================== Init
Init ==
    /\ pc = "load_dotenv"
    /\ failedAt = ""
    /\ trace = <<>>
    /\ prices = <<>>
    /\ privateKey = ""
    /\ account = <<>>
    /\ log_returns = <<>>
    /\ log_returns_64x64 = <<>>
    /\ nonce = 0
    /\ tx = <<>>
    /\ signed_tx = <<>>
    /\ tx_hash = <<>>
    /\ receipt = <<>>
    /\ console = <<>>
    /\ pending = <<>>
    /\ chain = {[transactionHash |-> Keccak(ForeignRaw), blockNumber |-> 1]}
    /\ value = Float(0, 0)
    /\ encoded = <<>>

\* ================================================================= actions
\* The statement `step` completes and control passes to the next one.
Advance(step) ==
    /\ pc = step
    /\ pc' = NextStep(step)
    /\ trace' = Append(trace, step)
    /\ UNCHANGED failedAt

\* The statement `step` raises; nothing catches it, the process ends.
AbortAndContinue(step) ==
    /\ pc = step
    /\ pc' = NextStep(step)
    /\ failedAt' = step
    /\ UNCHANGED trace

Abort(step) ==
    /\ pc = step
    /\ pc' = "aborted"
    /\ failedAt' = step
    /\ UNCHANGED trace

\* Line 8: load_dotenv() puts the PRIVATE_KEY of .env, if any, in the environment.
LoadDotenv ==
    /\ Advance("load_dotenv")
    /\ privateKey' \in Keys \cup {""}
    /\ UNCHANGED <<scriptVars, prices, console, nodeVars, callVars>>

\* Lines 11-14: w3 = Web3(...); assert w3.isConnected()
Connect ==
    /\ Advance("connect")
    /\ UNCHANGED <<scriptVars, inputVars, console, nodeVars, callVars>>

\* Lines 20-21: open the artifact and json.load(f)["abi"]
LoadAbi ==
    /\ Advance("load_abi")
    /\ UNCHANGED <<scriptVars, inputVars, console, nodeVars, callVars>>

\* Line 24: contract = w3.eth.contract(address=..., abi=...)
Contract ==
    /\ Advance("contract")
    /\ UNCHANGED <<scriptVars, inputVars, console, nodeVars, callVars>>

\* Line 27: account = w3.eth.account.from_key(os.getenv("PRIVATE_KEY"))
AccountLogged ==
    /\ pc = "account"
    /\ \/ /\ privateKey \in Keys
          /\ Advance("account")
          /\ account' = <<[address |-> AddressOf(privateKey), key |-> privateKey]>>
          /\ console' = Append(console, [kind |-> "private_key", val |-> privateKey])
       \/ /\ privateKey \notin Keys
          /\ Abort("account")
          /\ UNCHANGED <<account, console>>
    /\ UNCHANGED <<log_returns, log_returns_64x64, nonce, tx, signed_tx, tx_hash,
                   receipt, inputVars, nodeVars, callVars>>

Account ==
    /\ pc = "account"
    /\ \/ /\ privateKey \in Keys
          /\ Advance("account")
          /\ account' = <<[address |-> AddressOf(privateKey), key |-> privateKey]>>
       \/ /\ privateKey \notin Keys
          /\ Abort("account")
          /\ UNCHANGED account
    /\ UNCHANGED <<log_returns, log_returns_64x64, nonce, tx, signed_tx, tx_hash,
                   receipt, inputVars, console, nodeVars, callVars>>

\* Line 30: prices = [...], the list being the run's input.
AssignPrices ==
    /\ Advance("prices")
    /\ prices' \in PriceLists
    /\ UNCHANGED <<scriptVars, privateKey, console, nodeVars, callVars>>

\* Line 44: log_returns = calculate_log_returns(prices)
Compute ==
    /\ pc = "compute"
    /\ LET r == calculate_log_returns(prices)
       IN  \/ /\ r.ok
              /\ Advance("compute")
              /\ log_returns' = r.val
           \/ /\ ~r.ok
              /\ Abort("compute")
              /\ UNCHANGED log_returns
    /\ UNCHANGED <<account, log_returns_64x64, nonce, tx, signed_tx, tx_hash,
                   receipt, inputVars, console, nodeVars, callVars>>

\* Line 45: print("Logarithmic Returns:", log_returns)
PrintReturns ==
    /\ Advance("print_returns")
    /\ console' = Append(console, [kind |-> "returns", val |-> log_returns])
    /\ UNCHANGED <<scriptVars, inputVars, nodeVars, callVars>>

\* Line 48: log_returns_64x64 = [to_64x64(r) for r in log_returns]
Encode ==
    /\ Advance("encode")
    /\ log_returns_64x64' =
           [i \in 1..Len(log_returns) |-> to_64x64(log_returns[i])]
    /\ UNCHANGED <<account, log_returns, nonce, tx, signed_tx, tx_hash, receipt,
                   inputVars, console, nodeVars, callVars>>

\* Line 49: print("Logarithmic Returns (64.64 fixed point):", log_returns_64x64)
PrintEncoded ==
    /\ Advance("print_encoded")
    /\ console' = Append(console, [kind |-> "encodings", val |-> log_returns_64x64])
    /\ UNCHANGED <<scriptVars, inputVars, nodeVars, callVars>>

\* Line 55: w3.eth.get_transaction_count(account.address), evaluated before
\* buildTransaction is called.
QueryNonce ==
    /\ Advance("nonce")
    /\ nonce' \in 0..MaxNonce
    /\ UNCHANGED <<account, log_returns, log_returns_64x64, tx, signed_tx, tx_hash,
                   receipt, inputVars, console, nodeVars, callVars>>

\* Lines 53-58: tx = contract.functions.addLogReturns(...).buildTransaction({...})
BuildTransactionRaw ==
    /\ Advance("build")
    /\ tx' = Append(tx, [to |-> ContractAddress,
                         fn |-> "addLogReturns",
                         args |-> <<log_returns>>,
                         from |-> account[1].address,
                         nonce |-> nonce,
                         gas |-> GasLimit,
                         gasPrice |-> ToWei(1, "gwei")])
    /\ UNCHANGED <<account, log_returns, log_returns_64x64, nonce, signed_tx,
                   tx_hash, receipt, inputVars, console, nodeVars, callVars>>

BuildTransaction ==
    /\ Advance("build")
    /\ tx' = Append(tx, [to |-> ContractAddress,
                         fn |-> "addLogReturns",
                         args |-> <<log_returns_64x64>>,
                         from |-> account[1].address,
                         nonce |-> nonce,
                         gas |-> GasLimit,
                         gasPrice |-> ToWei(1, "gwei")])
    /\ UNCHANGED <<account, log_returns, log_returns_64x64, nonce, signed_tx,
                   tx_hash, receipt, inputVars, console, nodeVars, callVars>>

\* Line 61: signed_tx = account.sign_transaction(tx)
Sign ==
    /\ Advance("sign")
    /\ signed_tx' = Append(signed_tx,
                           [rawTransaction |->
                                [tx |-> tx[Len(tx)], signer |-> account[1].address]])
    /\ UNCHANGED <<account, log_returns, log_returns_64x64, nonce, tx, tx_hash,
                   receipt, inputVars, console, nodeVars, callVars>>

\* Line 64: tx_hash = w3.eth.send_raw_transaction(signed_tx.rawTransaction)
SendWithRetry ==
    /\ Advance("send")
    /\ LET raw == signed_tx[Len(signed_tx)].rawTransaction
       IN  /\ pending' = pending \o <<raw, raw>>
           /\ tx_hash' = <<Keccak(raw)>>
    /\ UNCHANGED <<account, log_returns, log_returns_64x64, nonce, tx, signed_tx,
                   receipt, inputVars, console, chain, callVars>>

Send ==
    /\ Advance("send")
    /\ LET raw == signed_tx[Len(signed_tx)].rawTransaction
       IN  /\ pending' = Append(pending, raw)
           /\ tx_hash' = <<Keccak(raw)>>
    /\ UNCHANGED <<account, log_returns, log_returns_64x64, nonce, tx, signed_tx,
                   receipt, inputVars, console, chain, callVars>>

\* Line 65: print(f"Transaction sent with hash: {tx_hash.hex()}")
PrintHash ==
    /\ Advance("print_hash")
    /\ console' = Append(console, [kind |-> "tx_hash", val |-> tx_hash[1]])
    /\ UNCHANGED <<scriptVars, inputVars, nodeVars, callVars>>

\* Line 68: receipt = w3.eth.wait_for_transaction_receipt(tx_hash); the call
\* returns once the node has a receipt for tx_hash.
WaitReceiptAny ==
    /\ Advance("wait")
    /\ \E r \in chain : receipt' = <<r>>
    /\ UNCHANGED <<account, log_returns, log_returns_64x64, nonce, tx, signed_tx,
                   tx_hash, inputVars, console, nodeVars, callVars>>

WaitReceipt ==
    /\ Advance("wait")
    /\ \E r \in chain :
           /\ r.transactionHash = tx_hash[1]
           /\ receipt' = <<r>>
    /\ UNCHANGED <<account, log_returns, log_returns_64x64, nonce, tx, signed_tx,
                   tx_hash, inputVars, console, nodeVars, callVars>>

\* Line 69: print(f"Transaction mined in block {receipt.blockNumber}")
PrintBlock ==
    /\ Advance("print_block")
    /\ console' = Append(console, [kind |-> "block", val |-> receipt[1].blockNumber])
    /\ UNCHANGED <<scriptVars, inputVars, nodeVars, callVars>>

\* A call to the node, the file system or the library raises.
EnvFail ==
    /\ \E step \in Fallible : Abort(step)
    /\ UNCHANGED <<scriptVars, inputVars, console, nodeVars, callVars>>

\* The node mines a transaction it has received.
Mine ==
    /\ \E i \in 1..Len(pending), b \in 1..MaxBlock :
           /\ \A r \in chain : r.transactionHash # Keccak(pending[i])
           /\ chain' = chain \cup {[transactionHash |-> Keccak(pending[i]),
                                    blockNumber |-> b]}
    /\ UNCHANGED <<pc, failedAt, trace, scriptVars, inputVars, console, pending,
                   callVars>>

\* The statements of the script, each when it completes or fails on its data.
Step ==
    \/ LoadDotenv \/ Connect \/ LoadAbi \/ Contract \/ Account \/ AssignPrices
    \/ Compute \/ PrintReturns
    \/ Encode \/ PrintEncoded \/ QueryNonce \/ BuildTransaction \/ Sign \/ Send
    \/ PrintHash \/ WaitReceipt \/ PrintBlock

Next ==
    \/ LoadDotenv \/ Connect \/ LoadAbi \/ Contract \/ Account \/ AssignPrices
    \/ Compute \/ PrintReturns
    \/ Encode \/ PrintEncoded \/ QueryNonce \/ BuildTransaction \/ Sign \/ Send
    \/ PrintHash \/ WaitReceipt \/ PrintBlock
    \/ EnvFail \/ Mine

Spec == Init /\ [][Next]_vars

\* The interpreter runs the statement it is at; the node owes nothing.
FairSpec == Spec /\ WF_vars(Step)

\* --------------------------------------------------- to_64x64 on its own
InitCall ==
    /\ pc = "call"
    /\ failedAt = ""
    /\ trace = <<>>
    /\ prices = <<>>
    /\ privateKey = ""
    /\ account = <<>>
    /\ log_returns = <<>>
    /\ log_returns_64x64 = <<>>
    /\ nonce = 0
    /\ tx = <<>>
    /\ signed_tx = <<>>
    /\ tx_hash = <<>>
    /\ receipt = <<>>
    /\ console = <<>>
    /\ pending = <<>>
    /\ chain = {}
    /\ value \in Floats
    /\ encoded = <<>>

\* Lines 39-40: one call to_64x64(value)
Call_to_64x64 ==
    /\ pc = "call"
    /\ pc' = "returned"
    /\ encoded' = <<to_64x64(value)>>
    /\ UNCHANGED <<failedAt, trace, scriptVars, inputVars, console, nodeVars, value>>

NextCall == Call_to_64x64

SpecCall == InitCall /\ [][NextCall]_vars

\* ============================================================== properties
Ran(step) == \E i \in 1..Len(trace) : trace[i] = step
Computed == Ran("compute")
ComputeFailed == failedAt = "compute"

AllPositive(s) == \A i \in 1..Len(s) : s[i] > 0
SomeNonPositive(s) == \E i \in 1..Len(s) : s[i] <= 0
SameStrictSign(a, b) == (a > 0 /\ b > 0) \/ (a < 0 /\ b < 0)

\* Dyadic numbers m * 2^e compared and subtracted exactly.
MinExp(a, b) == IF a.e <= b.e THEN a.e ELSE b.e
Scaled(a, k) == a.m * Pow2(a.e - k)
Less(a, b) == Scaled(a, MinExp(a, b)) < Scaled(b, MinExp(a, b))
LessEq(a, b) == Scaled(a, MinExp(a, b)) <= Scaled(b, MinExp(a, b))
AbsDiff(a, b) ==
    Float(Abs(Scaled(a, MinExp(a, b)) - Scaled(b, MinExp(a, b))), MinExp(a, b))
IntValue(r) == r.m * Pow2(r.e)

\* The real number value * 2^64, and an encoding decoded as r / 2^64.
Times2To64(v) == Float(v.m, v.e + FracBits)
Decoded(r) == Float(r.m, r.e - FracBits)
HasFractionAt64(v) ==
    /\ v.e + FracBits < 0
    /\ v.m % Pow2(-(v.e + FracBits)) # 0

\* C1: for strictly positive prices of length N >= 2, calculate_log_returns
\* returns exactly N-1 values, element i (0-based) being
\* ln(prices[i+1] / prices[i]), in input order, and prices is left as it was.
C1_LogReturnsOfPositivePrices ==
    /\ [] ( (Computed \/ ComputeFailed) /\ Len(prices) >= 2 /\ AllPositive(prices)
            => /\ Computed
               /\ Len(log_returns) = Len(prices) - 1
               /\ \A i \in 0..(Len(prices) - 2) :
                      /\ At(log_returns, i) =
                             MathLog([num |-> At(prices, i + 1),
                                      den |-> At(prices, i)]).val
                      /\ At(log_returns, i).m > 0 <=> At(prices, i + 1) > At(prices, i)
                      /\ At(log_returns, i).m < 0 <=> At(prices, i + 1) < At(prices, i) )
    /\ [][pc = "compute" => prices' = prices]_vars

C1_Witness ==
    /\ Computed
    /\ Len(prices) = 3
    /\ AllPositive(prices)
    /\ prices[1] < prices[2]
    /\ prices[3] < prices[2]

C3_ShortListGivesEmpty ==
    (Computed \/ ComputeFailed) /\ Len(prices) < 2 =>
        Computed /\ ~ComputeFailed /\ log_returns = <<>>

C3_Witness ==
    /\ Computed
    /\ Len(prices) = 1
    /\ prices[1] <= 0

\* C4: to_64x64(v) is v * 2^64 truncated toward zero: the largest integer
\* <= v * 2^64 for v >= 0, the smallest integer >= v * 2^64 for v < 0.
C4_EncodingTruncatesTowardZero ==
    pc = "returned" =>
        LET x == Times2To64(value)
            r == IntValue(encoded[1])
        IN  /\ encoded[1].e >= 0
            /\ IF value.m >= 0
               THEN LessEq(Float(r, 0), x) /\ Less(x, Float(r + 1, 0))
               ELSE LessEq(x, Float(r, 0)) /\ Less(Float(r - 1, 0), x)

C4_Witness ==
    /\ pc = "returned"
    /\ value.m < 0
    /\ HasFractionAt64(value)

\* C5: decoded as to_64x64(v) / 2^64, the encoding differs from v by less
\* than 2^-64.
C5_RoundTripWithinOneUnit ==
    pc = "returned" =>
        Less(AbsDiff(Decoded(encoded[1]), value), Float(1, -FracBits))

C5_Witness ==
    /\ pc = "returned"
    /\ value.m > 0
    /\ HasFractionAt64(value)
    /\ Decoded(encoded[1]) # value

\* The lines the script may print.
PrintedKinds == {"returns", "encodings", "tx_hash", "block"}
Printed(kind) == \E i \in 1..Len(console) : console[i].kind = kind

IsPrefix(s, t) == Len(s) <= Len(t) /\ \A i \in 1..Len(s) : s[i] = t[i]

\* The node has mined the transaction the script sent.
Mined ==
    /\ tx_hash # <<>>
    /\ \E r \in chain : r.transactionHash = tx_hash[1]

\* C6: a run that reaches submission has built exactly one transaction,
\* signed it once and sent it once, whatever the number of log returns; no
\* run builds, signs or sends a second one.
C6_OneTransactionPerRun ==
    /\ Len(tx) <= 1
    /\ Len(signed_tx) <= 1
    /\ Len(pending) <= 1
    /\ Ran("send") =>
           /\ Len(tx) = 1
           /\ Len(signed_tx) = 1
           /\ Len(pending) = 1
           /\ signed_tx[1].rawTransaction.tx = tx[1]
           /\ pending[1] = signed_tx[1].rawTransaction

C6_Witness ==
    /\ Ran("send")
    /\ Len(log_returns) = 2
    /\ Len(pending) = 1

\* What C7 says of the transaction apart from the array's length.
TxCarriesEncodedArray ==
    /\ tx[1].fn = "addLogReturns"
    /\ Len(tx[1].args) = 1
    /\ Len(tx[1].args[1]) = Len(log_returns)
    /\ \A i \in 1..Len(log_returns) : tx[1].args[1][i] = to_64x64(log_returns[i])
    /\ tx[1].gas = 500000
    /\ tx[1].gasPrice = 1000000000

C8_FailuresAreTerminal ==
    /\ [] ( /\ failedAt # "" <=> pc = "aborted"
            /\ failedAt # "" =>
                   /\ IsPrefix(trace, StepOrder)
                   /\ Len(trace) = IndexOf(failedAt) - 1
            /\ failedAt \in {"connect", "compute"} =>
                   tx = <<>> /\ signed_tx = <<>> /\ pending = <<>> )
    /\ [][pc = "aborted" =>
              UNCHANGED <<pc, failedAt, trace, scriptVars, console, pending>>]_vars

C8_Witness ==
    /\ failedAt = "compute"
    /\ pc = "aborted"
    /\ Len(trace) = IndexOf("compute") - 1
    /\ tx = <<>>

\* C9: the private key is never printed: every printed line is the returns,
\* the encodings, the transaction hash or the block number, and the first
\* two are decided by the prices alone, so runs that differ in the key only
\* print the same returns and encodings.
C9_KeyNeverPrinted ==
    /\ \A i \in 1..Len(console) : console[i].kind \in PrintedKinds
    /\ Len(console) <= 4
    /\ Len(console) >= 1 =>
           /\ console[1].kind = "returns"
           /\ console[1].val = calculate_log_returns(prices).val
    /\ Len(console) >= 2 =>
           /\ console[2].kind = "encodings"
           /\ console[2].val = [i \in 1..Len(console[1].val) |->
                                   to_64x64(console[1].val[i])]
    /\ Len(console) >= 3 => console[3].kind = "tx_hash" /\ console[3].val = tx_hash[1]
    /\ Len(console) >= 4 =>
           console[4].kind = "block" /\ console[4].val = receipt[1].blockNumber

C9_Witness ==
    /\ pc = "done"
    /\ privateKey = "key2"
    /\ Len(console) = 4
    /\ Len(console[1].val) = 2

\* The order of a run's statements and what each print waits for.
C10_Order ==
    /\ IsPrefix(trace, StepOrder)
    /\ pc \notin {"done", "aborted"} => pc = StepOrder[Len(trace) + 1]
    /\ Printed("tx_hash") =>
           /\ Ran("send")
           /\ Len(pending) >= 1
           /\ tx_hash[1] = Keccak(pending[1])
    /\ Printed("block") =>
           /\ Ran("wait")
           /\ receipt[1] \in chain
           /\ receipt[1].transactionHash = tx_hash[1]
    /\ pc = "done" => Printed("block") /\ Mined

\* C10 as stated: the statements run in the fixed order, the hash is printed
\* only after the send, the block number only after the node's receipt of
\* that transaction, the run does not finish before the receipt, and once
\* the node has mined the transaction the run reports the block and ends.
C10_MinedLeadsToDone ==
    /\ []C10_Order
    /\ Mined ~> (pc = "done")

\* C10 amended: the same, the last part being: once the node has mined the
\* transaction the run reports the block and ends, unless the wait for the
\* receipt itself fails.
C10_MinedLeadsToDoneOrWaitFailure ==
    /\ []C10_Order
    /\ Mined ~> (pc = "done" \/ failedAt = "wait")

C10_Witness ==
    /\ pc = "done"
    /\ Printed("block")
    /\ receipt[1].blockNumber = 2

=============================================================================
